---- MODULE Spec2Model ----
(***************************************************************************)
(* Model of the EVM log pipeline: the three Lambda handlers (fetch head,   *)
(* sync raw data, decode data), the Etherscan client's paginated get_logs, *)
(* the Delta Lake writer and the Step Functions runs that invoke them.     *)
(*                                                                         *)
(* A handler is one action.  The sync handler only writes (raw_logs, then  *)
(* the registry) and reads neither, so splitting it at its I/O points adds *)
(* no reachable store state; an invocation that is cut off part-way is an  *)
(* outcome of the action (env.cut).                                        *)
(***************************************************************************)
EXTENDS Integers, Sequences, FiniteSets, TLC

VARIABLES head, registry, raw_logs, decoded_logs, rpc, items, sres, dout, faults,
          tries, gl, dc, fh, mp, rl

vars == <<head, registry, raw_logs, decoded_logs, rpc, items, sres, dout, faults,
          tries, gl, dc, fh, mp, rl>>

pipevars == <<head, registry, raw_logs, decoded_logs, rpc, items, sres, dout, faults,
              tries>>

(***************************************************************************)
(* Bounds of the model                                                     *)
(***************************************************************************)
MaxRuns == 2
MaxHead == 2
MaxFaults == 1
BlockStep == 6000
MaxLen == 5
MaxBatch == 3
MaxLogs == 2

(***************************************************************************)
(* Program constants                                                       *)
(***************************************************************************)
REORG_BUFFER == 50
DefaultBatchSize == 10000

Runs == 1..MaxRuns

CHAIN_URLS == {1, 5, 11155111, 137, 42161, 10, 8453}

\* The registered contracts: key (chainid, contract_address).
Contracts == {<<1, "0xa">>, <<137, "0xb">>}

Chains == {k[1] : k \in Contracts}

\* The blocks in which the chain holds one log of the contract (the external
\* API's data).  0xa was created at block BlockStep \div 6 and emits nothing
\* in its first BlockStep blocks; 0xb is registered without a creation block
\* and emits one event.
ChainLogs(key) ==
    IF key = <<1, "0xa">>
    THEN {BlockStep + (BlockStep \div 3)} \cup
         {(BlockStep * i) - (BlockStep \div 6) : i \in 2..MaxHead}
    ELSE {BlockStep - (BlockStep \div 6)}

EventBlocks == UNION {ChainLogs(k) : k \in Contracts}

CreationBlockOf(key) ==
    IF key = <<1, "0xa">> THEN BlockStep \div 6 ELSE 0

Min(a, b) == IF a < b THEN a ELSE b

RECURSIVE SortedSeq(_)
SortedSeq(S) ==
    IF S = {} THEN <<>>
    ELSE LET m == CHOOSE x \in S : \A y \in S : x <= y
         IN  <<m>> \o SortedSeq(S \ {m})

RECURSIVE SumCounts(_, _)
SumCounts(f, S) ==
    IF S = {} THEN 0
    ELSE LET b == CHOOSE x \in S : TRUE
         IN  f[b] + SumCounts(f, S \ {b})

EmptyTable == [k \in Contracts |-> [b \in EventBlocks |-> 0]]

RowCount(table, key) == SumCounts(table[key], EventBlocks)

(***************************************************************************)
(* shared/etherscan_client.py                                              *)
(***************************************************************************)
\* A response to one outbound request: the transport outcome, and for a
\* delivered response its "status" and the shape of its "result".
RespFail == [transport |-> "fail", status |-> "0", result |-> "missing"]
RespList == [transport |-> "ok", status |-> "1", result |-> "list"]
RespStatus0 == [transport |-> "ok", status |-> "0", result |-> "list"]

\* result is "list" for a list that holds the window's logs (none when the
\* chain has none there), "empty" for [], "nonlist" for a message string.
Responses ==
    {RespFail} \cup
    [transport : {"ok"}, status : {"1", "0"},
     result : {"list", "empty", "nonlist", "missing"}]

\* No request has been answered yet.
NoResponse == [transport |-> "none", status |-> "", result |-> ""]

\* _get_base_url: raises for a chain that has no endpoint.
GetBaseUrlRaises(chain_id) == chain_id \notin CHAIN_URLS

\* Mutant: the window end is off by one.
WindowTo_OffByOne(current_from, to_block, batch_size) ==
    Min(current_from + batch_size, to_block)

\* Mutant: the window ends before it starts, as with a batch_size of 0.
WindowTo_NoAdvance(current_from, to_block, batch_size) ==
    Min(current_from - 1, to_block)

\* current_to = min(current_from + batch_size - 1, to_block)
WindowTo(current_from, to_block, batch_size) ==
    Min(current_from + batch_size - 1, to_block)

\* Mutant: the status of the response is not looked at.
WindowLogs_IgnoresStatus(events, current_from, current_to, resp) ==
    IF resp.result = "list"
    THEN SortedSeq({b \in events : current_from <= b /\ b <= current_to})
    ELSE <<>>

\* The logs one response adds to all_logs: the window's logs, in block order,
\* when status is "1" and the result is a non-empty list; nothing otherwise.
WindowLogs(events, current_from, current_to, resp) ==
    IF resp.status = "1" /\ resp.result = "list"
    THEN SortedSeq({b \in events : current_from <= b /\ b <= current_to})
    ELSE <<>>

GetLogsStart(from_block) ==
    [current_from |-> from_block, all_logs |-> <<>>, requests |-> <<>>,
     raised |-> FALSE]

\* Mutant: a transport failure is taken for a window without logs.
GetLogsIter_SwallowsFailure(st, chain_id, events, to_block, batch_size, resp) ==
    LET current_from == st.current_from
        current_to == Min(current_from + batch_size - 1, to_block)
    IN  IF GetBaseUrlRaises(chain_id)
        THEN [st EXCEPT !.raised = TRUE]
        ELSE [current_from |-> current_to + 1,
              all_logs |-> st.all_logs \o
                           (IF resp.transport = "fail" THEN <<>>
                            ELSE WindowLogs(events, current_from, current_to, resp)),
              requests |-> Append(st.requests, <<current_from, current_to>>),
              raised |-> FALSE]

\* One iteration of the while loop of get_logs.  _make_request raises before
\* sending when the chain is unsupported, and after sending on a transport
\* failure (timeout, non-2xx, malformed JSON).
GetLogsIter(st, chain_id, events, to_block, batch_size, resp) ==
    LET current_from == st.current_from
        current_to == WindowTo(current_from, to_block, batch_size)
    IN  IF GetBaseUrlRaises(chain_id)
        THEN [st EXCEPT !.raised = TRUE]
        ELSE IF resp.transport = "fail"
        THEN [st EXCEPT !.raised = TRUE,
                        !.requests = Append(@, <<current_from, current_to>>)]
        ELSE [current_from |-> current_to + 1,
              all_logs |-> st.all_logs \o
                           WindowLogs(events, current_from, current_to, resp),
              requests |-> Append(st.requests, <<current_from, current_to>>),
              raised |-> FALSE]

\* The loop condition of get_logs.
GetLogsContinues(st, to_block) == ~st.raised /\ st.current_from <= to_block

\* get_logs run to its end; resps[i] is the response to the i-th request.
RECURSIVE GetLogsLoop(_, _, _, _, _, _)
GetLogsLoop(st, chain_id, events, to_block, batch_size, resps) ==
    IF ~GetLogsContinues(st, to_block) THEN st
    ELSE GetLogsLoop(
            GetLogsIter(st, chain_id, events, to_block, batch_size,
                        resps[Len(st.requests) + 1]),
            chain_id, events, to_block, batch_size, resps)

GetLogs(chain_id, events, from_block, to_block, batch_size, resps) ==
    GetLogsLoop(GetLogsStart(from_block), chain_id, events, to_block,
                batch_size, resps)

(***************************************************************************)
(* shared/delta_lake_utils.py                                              *)
(***************************************************************************)
\* The rows of a write for one contract, as a count per block.
RowsOf(key, blocks) ==
    [k \in Contracts |->
        [b \in EventBlocks |->
            IF k = key
            THEN Cardinality({i \in 1..Len(blocks) : blocks[i] = b})
            ELSE 0]]

NoRows(rows) == \A k \in Contracts : \A b \in EventBlocks : rows[k][b] = 0

\* Mutant: every write replaces the content of the table.
WriteDeltalake_AlwaysOverwrite(table, rows, mode) == rows

\* write_deltalake(table_path, df, mode=mode, partition_by=...): "append" adds
\* the rows to the table; "overwrite" is given no partition predicate and
\* replaces the content of the table by the rows.
WriteDeltalake(table, rows, mode) ==
    IF mode = "append"
    THEN [k \in Contracts |-> [b \in EventBlocks |-> table[k][b] + rows[k][b]]]
    ELSE rows

\* Mutant: an empty DataFrame is written like any other.
WriteDeltaTable_NoGuard(table, rows, mode) == WriteDeltalake(table, rows, mode)

\* write_delta_table: an empty DataFrame is not written.
WriteDeltaTable(table, rows, mode) ==
    IF NoRows(rows) THEN table ELSE WriteDeltalake(table, rows, mode)

\* Mutant: the table is read without the filters.
ReadDeltaTable_Unfiltered(table, key) ==
    [b \in EventBlocks |-> SumCounts([k \in Contracts |-> table[k][b]], Contracts)]

\* read_delta_table with filters chainid = and contract_address = : the rows
\* of the contract; a table that does not exist yet (nothing was ever
\* written) raises "not found" inside, which is turned into an empty frame.
ReadDeltaTable(table, key) ==
    IF table = EmptyTable
    THEN [b \in EventBlocks |-> 0]
    ELSE table[key]

\* The read failures: "read" is one whose message holds neither "not found"
\* nor "does not exist" (access denied, throttling, a timeout);
\* "read_not_found" is one of a table that exists whose message holds "not
\* found" (a data file named by the table's log is missing from the bucket).
ReadFailures == {"read", "read_not_found"}

\* The except branch of read_delta_table: the failure is raised again unless
\* its message holds "not found" or "does not exist".
ReadRaises(fault) == fault = "read"

\* read_delta_table under a failure that it does not raise again: the empty
\* frame is returned, as for a table that does not exist.
ReadFrame(table, key, fault) ==
    IF fault = "read_not_found"
    THEN [b \in EventBlocks |-> 0]
    ELSE ReadDeltaTable(table, key)

(***************************************************************************)
(* sync_raw_data/handler.py                                                *)
(***************************************************************************)
\* Mutant: the update is applied to every record of the table.
UpdateLastSyncedBlock_AllRecords(reg, key, block_number) ==
    [k \in DOMAIN reg |-> [reg[k] EXCEPT !.last_updated_block = block_number]]

\* update_last_synced_block: SET last_updated_block = :block on the key.
UpdateLastSyncedBlock(reg, key, block_number) ==
    [reg EXCEPT ![key].last_updated_block = block_number]

\* Mutant: the incremental range starts at the watermark itself.
PlanFromBlock_Rescan(last_updated_block, contract_creation_block) ==
    IF last_updated_block = 0
    THEN IF contract_creation_block > 0 THEN contract_creation_block ELSE 0
    ELSE last_updated_block

\* The sync mode: full backfill from the creation block, or incremental.
PlanFromBlock(last_updated_block, contract_creation_block) ==
    IF last_updated_block = 0
    THEN IF contract_creation_block > 0 THEN contract_creation_block ELSE 0
    ELSE last_updated_block + 1

\* The validation of the input: a field that is 0 or "" counts as missing.
MissingRequired(event) ==
    event.chainid = 0 \/ event.contract_address = "" \/ event.target_block = 0

SyncFaults ==
    {"none", "secret", "append", "registry",
     "cut_fetch", "cut_append", "cut_update", "cut_return"}

TaskFailed == [status |-> "TaskFailed"]

SyncOut(raw, reg, result, requests) ==
    [raw |-> raw, registry |-> reg, result |-> result, requests |-> requests]

SyncError(event, msg) ==
    [status |-> "error", error |-> msg, chainid |-> event.chainid,
     contract_address |-> event.contract_address]

SyncSuccess(event, from_block, logs) ==
    [status |-> "success", chainid |-> event.chainid,
     contract_address |-> event.contract_address,
     contract_abi |-> event.contract_abi,
     synced_from_block |-> from_block,
     synced_to_block |-> event.target_block,
     logs_count |-> Len(logs)]

\* Mutant: the watermark follows the last block that holds a fetched log.
WatermarkBlock_LastLog(target_block, logs) ==
    IF logs # <<>> THEN logs[Len(logs)] ELSE target_block

\* The block the watermark is advanced to: target_block, whatever was fetched.
WatermarkBlock(target_block, logs) == target_block

\* Mutant: the registry is updated before the logs are appended.
SyncWrite_RegistryFirst(event, env, raw, reg, from_block, fetched) ==
    LET key == <<event.chainid, event.contract_address>>
        logs == fetched.all_logs
        written == IF logs # <<>>
                   THEN WriteDeltaTable(raw, RowsOf(key, logs), "append")
                   ELSE raw
        updated == IF env.fault = "registry" THEN reg
                   ELSE UpdateLastSyncedBlock(reg, key, event.target_block)
    IN  IF env.fault = "cut_update"
        THEN SyncOut(raw, reg, TaskFailed, fetched.requests)
        ELSE IF logs # <<>> /\ env.fault = "cut_append"
        THEN SyncOut(raw, updated, TaskFailed, fetched.requests)
        ELSE IF logs # <<>> /\ env.fault = "append"
        THEN SyncOut(raw, updated,
                     SyncError(event, "Failed to write to DeltaLake"),
                     fetched.requests)
        ELSE IF env.fault = "cut_return"
        THEN SyncOut(written, updated, TaskFailed, fetched.requests)
        ELSE SyncOut(written, updated, SyncSuccess(event, from_block, logs),
                     fetched.requests)

\* Mutant: a failure of the registry update is not caught.
SyncWrite_RegistryRaises(event, env, raw, reg, from_block, fetched) ==
    LET key == <<event.chainid, event.contract_address>>
        logs == fetched.all_logs
        written == IF logs # <<>>
                   THEN WriteDeltaTable(raw, RowsOf(key, logs), "append")
                   ELSE raw
        updated == UpdateLastSyncedBlock(reg, key, event.target_block)
    IN  IF logs # <<>> /\ env.fault = "cut_append"
        THEN SyncOut(raw, reg, TaskFailed, fetched.requests)
        ELSE IF logs # <<>> /\ env.fault = "append"
        THEN SyncOut(raw, reg,
                     SyncError(event, "Failed to write to DeltaLake"),
                     fetched.requests)
        ELSE IF env.fault \in {"cut_update", "registry"}
        THEN SyncOut(written, reg, TaskFailed, fetched.requests)
        ELSE IF env.fault = "cut_return"
        THEN SyncOut(written, updated, TaskFailed, fetched.requests)
        ELSE SyncOut(written, updated, SyncSuccess(event, from_block, logs),
                     fetched.requests)

\* The second half of the handler, once get_logs has returned: the append of
\* the logs when there are any, then the registry update, whose failure is
\* only logged, then the success result.
SyncWrite(event, env, raw, reg, from_block, fetched) ==
    LET key == <<event.chainid, event.contract_address>>
        target_block == event.target_block
        logs == fetched.all_logs
        written == IF logs # <<>>
                   THEN WriteDeltaTable(raw, RowsOf(key, logs), "append")
                   ELSE raw
        updated == IF env.fault = "registry" THEN reg
                   ELSE UpdateLastSyncedBlock(reg, key,
                                              WatermarkBlock(target_block, logs))
    IN  IF logs # <<>> /\ env.fault = "cut_append"
        THEN SyncOut(raw, reg, TaskFailed, fetched.requests)
        ELSE IF logs # <<>> /\ env.fault = "append"
        THEN SyncOut(raw, reg,
                     SyncError(event, "Failed to write to DeltaLake"),
                     fetched.requests)
        ELSE IF env.fault = "cut_update"
        THEN SyncOut(written, reg, TaskFailed, fetched.requests)
        ELSE IF env.fault = "cut_return"
        THEN SyncOut(written, updated, TaskFailed, fetched.requests)
        ELSE SyncOut(written, updated, SyncSuccess(event, from_block, logs),
                     fetched.requests)

\* handler(event, context).  env.resps are the API's responses, env.fault the
\* collaborator that fails or the stage in which the invocation is cut off
\* (a timeout).  The outcome: the tables after the call, the returned result
\* (TaskFailed when the invocation raised or was cut off) and the requests
\* issued.
SyncRange(event, env, raw, reg) ==
    LET chain_id == event.chainid
        key == <<chain_id, event.contract_address>>
        target_block == event.target_block
        from_block == PlanFromBlock(event.last_updated_block,
                                    event.contract_creation_block)
        fetched == GetLogs(chain_id, ChainLogs(key), from_block, target_block,
                           DefaultBatchSize, env.resps)
    IN  IF MissingRequired(event)
        THEN SyncOut(raw, reg, SyncError(event, "Missing required fields"), <<>>)
        ELSE IF from_block > target_block
        THEN SyncOut(raw, reg,
                [status |-> "no_new_data", chainid |-> chain_id,
                 contract_address |-> event.contract_address,
                 last_updated_block |-> event.last_updated_block,
                 target_block |-> target_block],
                <<>>)
        ELSE IF env.fault = "secret"
        THEN SyncOut(raw, reg, TaskFailed, <<>>)
        ELSE IF env.fault = "cut_fetch"
        THEN SyncOut(raw, reg, TaskFailed, fetched.requests)
        ELSE IF fetched.raised
        THEN SyncOut(raw, reg, SyncError(event, "Failed to fetch logs"),
                     fetched.requests)
        ELSE SyncWrite(event, env, raw, reg, from_block, fetched)

(***************************************************************************)
(* shared/abi_decoder.py                                                   *)
(*                                                                         *)
(* A topic is a hex string (with or without the 0x prefix, in lower or     *)
(* upper case) or a bytes value; hex holds its digits.  An ABI is valid    *)
(* (a list of event dictionaries web3 accepts) or not, and declares a set  *)
(* of events.  The data of a log decodes against an event ("ok") or does   *)
(* not ("garbage": malformed bytes, a length mismatch).                    *)
(***************************************************************************)
AbiEvents == {"Transfer", "Approval"}

\* keccak256 of the event signature, as hex digits in lower case.
KeccakHex(event_name) == IF event_name = "Transfer" THEN "ddf2" ELSE "8c5b"

\* The lower-case form of a string of hex digits.
LowerHex(h) == IF h = "DDF2" THEN "ddf2" ELSE h

StrTopic(prefix, hex) == [kind |-> "str", prefix |-> prefix, hex |-> hex]

BytesTopic(hex) == [kind |-> "bytes", prefix |-> FALSE, hex |-> hex]

\* w3.eth.contract(abi=abi) raises for an ABI that is not a list of valid
\* entries; it is called before the loop, outside every try.
ContractRaises(abi) == ~abi.valid

\* event_map: sig_hash -> event, the key being keccak(...).hex() with its 0x
\* prefix, in lower case.
EventMap(abi) ==
    [sig \in {StrTopic(TRUE, KeccakHex(e)) : e \in abi.events} |->
        CHOOSE e \in abi.events : KeccakHex(e) = sig.hex]

\* sig = topics[0]; bytes are turned into hex digits, and 0x is put in front
\* of a string that does not start with it.  The case of the digits is kept.
NormalizeSig(topic) ==
    IF topic.kind = "bytes"
    THEN StrTopic(TRUE, topic.hex)
    ELSE StrTopic(TRUE, topic.hex)

\* _prepare_log_for_web3, event.process_log or _args_to_dict raises.
ProcessLogRaises(log) == log.data = "garbage"

None == "None"

NoArgs == "{}"

\* {**log, "event_name": ..., "decoded_args": ..., "decode_status": ...}
DecodedRecord(log, event_name, decoded_args, decode_status) ==
    [log |-> log, event_name |-> event_name, decoded_args |-> decoded_args,
     decode_status |-> decode_status]

\* The record of the except branch, which alone carries decode_error.
ErrorRecord(log, message) ==
    [log |-> log, event_name |-> None, decoded_args |-> NoArgs,
     decode_status |-> "error", decode_error |-> message]

\* Mutant: every record carries decode_error, and the error record keeps the
\* name of the matched event.
RecordOf_AlwaysError(log, event_map) ==
    IF log.topics = <<>>
    THEN [log |-> log, event_name |-> None, decoded_args |-> NoArgs,
          decode_status |-> "no_topics", decode_error |-> None]
    ELSE IF NormalizeSig(log.topics[1]) \in DOMAIN event_map
    THEN IF ProcessLogRaises(log)
         THEN [log |-> log, event_name |-> event_map[NormalizeSig(log.topics[1])],
               decoded_args |-> NoArgs, decode_status |-> "error",
               decode_error |-> "decode failed"]
         ELSE [log |-> log, event_name |-> event_map[NormalizeSig(log.topics[1])],
               decoded_args |-> "args", decode_status |-> "success",
               decode_error |-> None]
    ELSE [log |-> log, event_name |-> None, decoded_args |-> NoArgs,
          decode_status |-> "unknown_event", decode_error |-> None]

\* Mutant: the signature is looked up before the topics are tested.
RecordOf_LookupFirst(log, event_map) ==
    IF log.topics = <<>> \/ NormalizeSig(log.topics[1]) \notin DOMAIN event_map
    THEN DecodedRecord(log, None, NoArgs, "unknown_event")
    ELSE IF ProcessLogRaises(log)
    THEN ErrorRecord(log, "decode failed")
    ELSE DecodedRecord(log, event_map[NormalizeSig(log.topics[1])], "args",
                       "success")

\* The record one iteration of the loop appends for log.
RecordOf(log, event_map) ==
    IF log.topics = <<>>
    THEN DecodedRecord(log, None, NoArgs, "no_topics")
    ELSE LET sig == NormalizeSig(log.topics[1])
         IN  IF sig \in DOMAIN event_map
             THEN IF ProcessLogRaises(log)
                  THEN ErrorRecord(log, "decode failed")
                  ELSE DecodedRecord(log, event_map[sig], "args", "success")
             ELSE DecodedRecord(log, None, NoArgs, "unknown_event")

\* Mutant: the iteration writes the status into the log it was given.
LogAfter_InPlace(log, event_map) ==
    [log EXCEPT !.data = RecordOf(log, event_map).decode_status]

\* The input log as one iteration leaves it: the iteration reads it and
\* copies it into a new dict, and writes nothing into it.
LogAfter(log, event_map) == log

(***************************************************************************)
(* decode_data/handler.py                                                  *)
(***************************************************************************)
\* The collaborator of the decode handler that fails: the ABI load, the read
\* of the raw table (for another reason than a missing table), decode_logs
\* (an ABI it rejects) or the write of the decoded table.
DecodeFaults == {"none", "abi", "decode", "write"} \cup ReadFailures

DecodeOut(decoded, result) == [decoded |-> decoded, result |-> result]

Field(event, name, default) ==
    IF name \in DOMAIN event THEN event[name] ELSE default

\* Mutant: raw rows that are stored twice are decoded once.
DecodedRows_Distinct(key, rows) ==
    [k \in Contracts |->
        [b \in EventBlocks |-> IF k = key /\ rows[b] > 0 THEN 1 ELSE 0]]

\* The decoded DataFrame: one decoded record per raw row read for the key.
DecodedRows(key, rows) ==
    [k \in Contracts |-> IF k = key THEN rows ELSE [b \in EventBlocks |-> 0]]

DecodeError(event, msg) ==
    [status |-> "error", error |-> msg, chainid |-> Field(event, "chainid", 0),
     contract_address |-> Field(event, "contract_address", "")]

\* The short-circuit on the status of the previous step.
DecodeSkipped(event, reason) ==
    IF reason = "no_new_data"
    THEN [status |-> "skipped", reason |-> reason,
          chainid |-> Field(event, "chainid", 0),
          contract_address |-> Field(event, "contract_address", "")]
    ELSE [status |-> "skipped", reason |-> reason,
          chainid |-> Field(event, "chainid", 0),
          contract_address |-> Field(event, "contract_address", ""),
          error |-> Field(event, "error", "")]

\* Mutant: the decoded records are appended to decoded_logs.
DecodeSteps_Appends(event, fault, raw, decoded) ==
    LET chain_id == Field(event, "chainid", 0)
        contract_address == Field(event, "contract_address", "")
        abi_location == Field(event, "contract_abi", "")
        key == <<chain_id, contract_address>>
        rows == ReadFrame(raw, key, fault)
        decoded_count == SumCounts(rows, EventBlocks)
    IN  IF chain_id = 0 \/ contract_address = ""
        THEN DecodeOut(decoded, DecodeError(event, "Missing required fields"))
        ELSE IF abi_location = ""
        THEN DecodeOut(decoded, DecodeError(event, "No ABI location provided"))
        ELSE IF fault = "abi"
        THEN DecodeOut(decoded, DecodeError(event, "Failed to load ABI"))
        ELSE IF ReadRaises(fault)
        THEN DecodeOut(decoded, DecodeError(event, "Failed to read raw logs"))
        ELSE IF decoded_count = 0
        THEN DecodeOut(decoded,
                [status |-> "no_data", chainid |-> chain_id,
                 contract_address |-> contract_address])
        ELSE IF fault = "decode"
        THEN DecodeOut(decoded, DecodeError(event, "Failed to decode logs"))
        ELSE IF fault = "write"
        THEN DecodeOut(decoded, DecodeError(event, "Failed to write decoded logs"))
        ELSE DecodeOut(
                WriteDeltaTable(decoded, DecodedRows(key, rows), "append"),
                [status |-> "success", chainid |-> chain_id,
                 contract_address |-> contract_address,
                 decoded_count |-> decoded_count,
                 synced_from_block |-> Field(event, "synced_from_block", -1),
                 synced_to_block |-> Field(event, "synced_to_block", -1)])

\* The handler after the short-circuit: validation, ABI load, read of the raw
\* rows, decoding, overwrite of the decoded table.
DecodeSteps(event, fault, raw, decoded) ==
    LET chain_id == Field(event, "chainid", 0)
        contract_address == Field(event, "contract_address", "")
        abi_location == Field(event, "contract_abi", "")
        key == <<chain_id, contract_address>>
        rows == ReadFrame(raw, key, fault)
        decoded_count == SumCounts(rows, EventBlocks)
    IN  IF chain_id = 0 \/ contract_address = ""
        THEN DecodeOut(decoded, DecodeError(event, "Missing required fields"))
        ELSE IF abi_location = ""
        THEN DecodeOut(decoded, DecodeError(event, "No ABI location provided"))
        ELSE IF fault = "abi"
        THEN DecodeOut(decoded, DecodeError(event, "Failed to load ABI"))
        ELSE IF ReadRaises(fault)
        THEN DecodeOut(decoded, DecodeError(event, "Failed to read raw logs"))
        ELSE IF decoded_count = 0
        THEN DecodeOut(decoded,
                [status |-> "no_data", chainid |-> chain_id,
                 contract_address |-> contract_address])
        ELSE IF fault = "decode"
        THEN DecodeOut(decoded, DecodeError(event, "Failed to decode logs"))
        ELSE IF fault = "write"
        THEN DecodeOut(decoded, DecodeError(event, "Failed to write decoded logs"))
        ELSE DecodeOut(
                WriteDeltaTable(decoded, DecodedRows(key, rows), "overwrite"),
                [status |-> "success", chainid |-> chain_id,
                 contract_address |-> contract_address,
                 decoded_count |-> decoded_count,
                 synced_from_block |-> Field(event, "synced_from_block", -1),
                 synced_to_block |-> Field(event, "synced_to_block", -1)])

\* Mutant: the ABI is loaded before the status of the previous step is
\* looked at.
DecodeRange_LoadsAbiFirst(event, fault, raw, decoded) ==
    IF fault = "abi"
    THEN DecodeOut(decoded, DecodeError(event, "Failed to load ABI"))
    ELSE IF event.status = "no_new_data"
    THEN DecodeOut(decoded, DecodeSkipped(event, "no_new_data"))
    ELSE IF event.status = "error"
    THEN DecodeOut(decoded, DecodeSkipped(event, "previous_step_failed"))
    ELSE DecodeSteps(event, fault, raw, decoded)

\* handler(event, context) of the decode Lambda; event is the sync result.
DecodeRange(event, fault, raw, decoded) ==
    IF event.status = "no_new_data"
    THEN DecodeOut(decoded, DecodeSkipped(event, "no_new_data"))
    ELSE IF event.status = "error"
    THEN DecodeOut(decoded, DecodeSkipped(event, "previous_step_failed"))
    ELSE DecodeSteps(event, fault, raw, decoded)

(***************************************************************************)
(* lambdas/fetch_latest_block/handler.py                                   *)
(***************************************************************************)
\* Mutant: the head itself is handed out.
SafeBlock_NoBuffer(latest_block) == latest_block

\* safe_block = latest_block - REORG_BUFFER
SafeBlock(latest_block) == latest_block - REORG_BUFFER

\* handler(event, context) of the fetch Lambda: the contracts of the chains in
\* ok (those whose head was fetched), each with the registry record read by
\* the scan and the chain's target_block.
FetchHeadContracts(reg, heads, ok) ==
    [k \in {c \in Contracts : c[1] \in ok} |->
        [chainid |-> k[1],
         contract_address |-> k[2],
         contract_abi |-> reg[k].contract_abi,
         last_updated_block |-> reg[k].last_updated_block,
         contract_creation_block |-> reg[k].contract_creation_block,
         target_block |-> SafeBlock(heads[k[1]])]]

(***************************************************************************)
(* The runs of the state machine (stacks/orchestration_stack.py)           *)
(*                                                                         *)
(* items[r] holds the input of every SyncContractsMap iteration of run r   *)
(* that has not returned yet, sres[r] the sync outputs that the            *)
(* DecodeContractsMap has not consumed yet, dout the output of the latest  *)
(* decode invocation.  head is the chain head the API last reported.       *)
(***************************************************************************)
MaxAttempts == 3

MaxWindows == ((MaxHead * BlockStep) \div DefaultBatchSize) + 1

SyncEnvs ==
    [resps : [1..MaxWindows -> {RespList, RespStatus0, RespFail}],
     fault : SyncFaults]

\* No collaborator fails and every window is answered with its logs.
NominalEnv(env) ==
    /\ env.fault = "none"
    /\ \A i \in 1..MaxWindows : env.resps[i] = RespList

\* The heads the API reports for chain 1: below the reorg buffer, at it, and
\* above; chain 137 is reported at one height.
HeadValues(ch) ==
    IF ch = 1
    THEN {REORG_BUFFER - 1} \cup {REORG_BUFFER + (BlockStep * i) : i \in 0..MaxHead}
    ELSE {REORG_BUFFER + BlockStep}

GlIdle == [pc |-> "idle"]

DcIdle == [pc |-> "idle"]

FhIdle == [pc |-> "idle"]

MpIdle == [pc |-> "idle"]

RlIdle == [pc |-> "idle"]

NoOutput == [status |-> "none"]

Init ==
    /\ head = [ch \in Chains |-> CHOOSE h \in HeadValues(ch) :
                                    \A g \in HeadValues(ch) : h <= g]
    /\ registry = [k \in Contracts |->
                      [last_updated_block |-> 0,
                       contract_creation_block |-> CreationBlockOf(k),
                       contract_abi |-> "s3://abis/contract.json"]]
    /\ raw_logs = EmptyTable
    /\ decoded_logs = EmptyTable
    /\ rpc = [r \in Runs |-> "idle"]
    /\ items = [r \in Runs |-> <<>>]
    /\ sres = [r \in Runs |-> <<>>]
    /\ dout = NoOutput
    /\ faults = 0
    /\ tries = [r \in Runs |-> 0]
    /\ gl = GlIdle
    /\ dc = DcIdle
    /\ fh = FhIdle
    /\ mp = MpIdle
    /\ rl = RlIdle

\* The Choice state CheckContracts on the output of FetchHead, which always
\* has the key "contracts": not(is_present($.contracts)) is false and
\* $.contracts[0] is compared with the number 0.  For a list that is not
\* empty the first contract is an object, not the number 0, and the run goes
\* on to SyncContractsMap.  For the empty list $.contracts[0] refers to
\* nothing: Step Functions fails the execution with States.Runtime; were the
\* comparison taken as false instead, the two Map states would run over no
\* item and the run end in PipelineSuccess.  NoContractsFound is entered in
\* neither case.
CheckContracts(contracts) ==
    IF DOMAIN contracts = {} THEN {"failed", "done"} ELSE {"running"}

\* A run starts (every 30 minutes, whether or not the previous run has ended)
\* and its FetchLatestBlock task returns.  latest[ch] is the head the API
\* reports for chain ch, ok the chains whose request succeeds; a chain grows.
FetchHead(r, latest, ok) ==
    LET heads == [ch \in Chains |-> IF ch \in ok THEN latest[ch] ELSE head[ch]]
    IN  /\ rpc[r] = "idle"
        /\ r > 1 => rpc[r - 1] # "idle"
        /\ \A ch \in Chains : latest[ch] \in HeadValues(ch)
        /\ \A ch \in ok : head[ch] <= latest[ch]
        /\ ok # Chains => faults < MaxFaults
        /\ faults' = IF ok # Chains THEN faults + 1 ELSE faults
        /\ head' = heads
        /\ items' = [items EXCEPT ![r] = FetchHeadContracts(registry, heads, ok)]
        /\ \E after \in CheckContracts(items'[r]) :
              rpc' = [rpc EXCEPT ![r] = after]
        /\ UNCHANGED <<registry, raw_logs, decoded_logs, sres, dout, tries, gl, dc, fh, mp,
                       rl>>

\* Mutant: the fetch task has no retry.
FetchHeadFails_NoRetry(r) ==
    /\ rpc[r] = "idle"
    /\ r > 1 => rpc[r - 1] # "idle"
    /\ tries[r] = 0 => faults < MaxFaults
    /\ faults' = IF tries[r] = 0 THEN faults + 1 ELSE faults
    /\ tries' = [tries EXCEPT ![r] = @ + 1]
    /\ rpc' = [rpc EXCEPT ![r] = "FetchBlockFailed"]
    /\ UNCHANGED <<head, registry, raw_logs, decoded_logs, items, sres, dout, gl, dc,
                   fh, mp, rl>>

\* An invocation of the fetch Lambda raises (the API key or the registry scan
\* cannot be read): the task is retried MaxAttempts times, then its catch
\* sends the run to the Fail state FetchBlockFailed.  The retries of an
\* invocation that failed belong to the same fault.
FetchHeadFails(r) ==
    /\ rpc[r] = "idle"
    /\ r > 1 => rpc[r - 1] # "idle"
    /\ tries[r] = 0 => faults < MaxFaults
    /\ faults' = IF tries[r] = 0 THEN faults + 1 ELSE faults
    /\ tries' = [tries EXCEPT ![r] = @ + 1]
    /\ rpc' = IF tries[r] < MaxAttempts THEN rpc
              ELSE [rpc EXCEPT ![r] = "FetchBlockFailed"]
    /\ UNCHANGED <<head, registry, raw_logs, decoded_logs, items, sres, dout, gl, dc,
                   fh, mp, rl>>

Attempts(event) == IF "attempts" \in DOMAIN event THEN event.attempts ELSE 0

\* The secret that could not be read stays unreadable for the retries of the
\* invocation: these are part of the same fault.  Every other anomaly is a
\* fault of its own.
SecretEnv(env) ==
    /\ env.fault = "secret"
    /\ \A i \in 1..MaxWindows : env.resps[i] = RespList

Charged(event, env) ==
    /\ ~NominalEnv(env)
    /\ ~(Attempts(event) > 0 /\ SecretEnv(env))

\* The retry of the SyncRawData task: a failed invocation is invoked again
\* with the same input while attempts remain.
Retried(event) ==
    [k \in DOMAIN event \cup {"attempts"} |->
        IF k = "attempts" THEN Attempts(event) + 1 ELSE event[k]]

Without(f, k) == [x \in DOMAIN f \ {k} |-> f[x]]

With(f, k, v) == [x \in DOMAIN f \cup {k} |-> IF x = k THEN v ELSE f[x]]

\* One invocation of the sync Lambda by the SyncContractsMap iteration of k.
Sync(r, k, env) ==
    /\ rpc[r] = "running"
    /\ k \in DOMAIN items[r]
    /\ Charged(items[r][k], env) => faults < MaxFaults
    /\ faults' = IF Charged(items[r][k], env) THEN faults + 1 ELSE faults
    /\ LET out == SyncRange(items[r][k], env, raw_logs, registry)
       IN  /\ raw_logs' = out.raw
           /\ registry' = out.registry
           /\ IF out.result # TaskFailed
              THEN /\ items' = [items EXCEPT ![r] = Without(@, k)]
                   /\ sres' = [sres EXCEPT ![r] = With(@, k, out.result)]
                   /\ rpc' = rpc
              ELSE IF Attempts(items[r][k]) < MaxAttempts
              THEN /\ items' = [items EXCEPT ![r][k] = Retried(@)]
                   /\ UNCHANGED <<sres, rpc>>
              ELSE /\ rpc' = [rpc EXCEPT ![r] = "failed"]
                   /\ items' = [items EXCEPT ![r] = <<>>]
                   /\ sres' = [sres EXCEPT ![r] = <<>>]
    /\ UNCHANGED <<head, decoded_logs, dout, tries, gl, dc, fh, mp, rl>>

\* Mutant: the decode iteration of a contract starts as soon as its sync has
\* returned.
Decode_NoBarrier(r, k, fault) ==
    /\ rpc[r] = "running"
    /\ k \in DOMAIN sres[r]
    /\ fault # "none" => faults < MaxFaults
    /\ faults' = IF fault = "none" THEN faults ELSE faults + 1
    /\ LET out == DecodeRange(sres[r][k], fault, raw_logs, decoded_logs)
       IN  /\ decoded_logs' = out.decoded
           /\ dout' = out.result
    /\ sres' = [sres EXCEPT ![r] = Without(@, k)]
    /\ rpc' = IF DOMAIN sres'[r] = {} /\ DOMAIN items[r] = {}
              THEN [rpc EXCEPT ![r] = "done"] ELSE rpc
    /\ UNCHANGED <<head, registry, raw_logs, items, tries, gl, dc, fh, mp, rl>>

\* One invocation of the decode Lambda by the DecodeContractsMap iteration of
\* k, once every sync iteration has returned; its input is the output of k's
\* sync iteration.
Decode(r, k, fault) ==
    /\ rpc[r] = "running"
    /\ DOMAIN items[r] = {}
    /\ k \in DOMAIN sres[r]
    /\ fault # "none" => faults < MaxFaults
    /\ faults' = IF fault = "none" THEN faults ELSE faults + 1
    /\ LET out == DecodeRange(sres[r][k], fault, raw_logs, decoded_logs)
       IN  /\ decoded_logs' = out.decoded
           /\ dout' = out.result
    /\ sres' = [sres EXCEPT ![r] = Without(@, k)]
    /\ rpc' = IF DOMAIN sres'[r] = {} THEN [rpc EXCEPT ![r] = "done"] ELSE rpc
    /\ UNCHANGED <<head, registry, raw_logs, items, tries, gl, dc, fh, mp, rl>>

Next ==
    \/ \E r \in Runs : \E latest \in [Chains -> UNION {HeadValues(ch) : ch \in Chains}] :
          \E ok \in SUBSET Chains : FetchHead(r, latest, ok)
    \/ \E r \in Runs : FetchHeadFails(r)
    \/ \E r \in Runs : \E k \in Contracts : \E env \in SyncEnvs : Sync(r, k, env)
    \/ \E r \in Runs : \E k \in Contracts : \E f \in DecodeFaults : Decode(r, k, f)

Spec == Init /\ [][Next]_vars

(***************************************************************************)
(* get_logs on its own: the inputs are drawn in the initial state, one     *)
(* action is one iteration of its loop, with any response of the API.      *)
(***************************************************************************)
\* The call of the pagination scenario: [100, 25000] with batch_size 10000,
\* the contract having a log at both ends and in the middle window.
ScenarioCall ==
    [pc |-> "loop", chain_id |-> 1, events |-> {100, 15000, 25000},
     from_block |-> 100, to_block |-> 25000, batch_size |-> DefaultBatchSize,
     st |-> GetLogsStart(100), last |-> NoResponse]

\* chain 56 has no endpoint in CHAIN_URLS.
GetLogsCalls ==
    {ScenarioCall} \cup
    {[pc |-> "loop", chain_id |-> c, events |-> 0..MaxLen, from_block |-> f,
      to_block |-> t, batch_size |-> b, st |-> GetLogsStart(f),
      last |-> NoResponse] :
        c \in {1, 56}, f \in 0..MaxLen, t \in 0..MaxLen, b \in 1..MaxBatch}

InitGetLogs ==
    /\ head = [ch \in Chains |-> CHOOSE h \in HeadValues(ch) :
                                    \A g \in HeadValues(ch) : h <= g]
    /\ registry = [k \in Contracts |->
                      [last_updated_block |-> 0,
                       contract_creation_block |-> CreationBlockOf(k),
                       contract_abi |-> "s3://abis/contract.json"]]
    /\ raw_logs = EmptyTable
    /\ decoded_logs = EmptyTable
    /\ rpc = [r \in Runs |-> "idle"]
    /\ items = [r \in Runs |-> <<>>]
    /\ sres = [r \in Runs |-> <<>>]
    /\ dout = NoOutput
    /\ faults = 0
    /\ tries = [r \in Runs |-> 0]
    /\ gl \in GetLogsCalls
    /\ dc = DcIdle
    /\ fh = FhIdle
    /\ mp = MpIdle
    /\ rl = RlIdle

\* One iteration of the while loop: the request of a window and its response.
GetLogsStep(resp) ==
    /\ gl.pc = "loop"
    /\ GetLogsContinues(gl.st, gl.to_block)
    /\ LET st == GetLogsIter(gl.st, gl.chain_id, gl.events, gl.to_block,
                             gl.batch_size, resp)
       IN  gl' = [gl EXCEPT !.st = st, !.last = resp,
                            !.pc = IF st.raised THEN "raised" ELSE "loop"]
    /\ UNCHANGED <<pipevars, dc, fh, mp, rl>>

\* The loop condition fails: return all_logs.
GetLogsReturn ==
    /\ gl.pc = "loop"
    /\ ~GetLogsContinues(gl.st, gl.to_block)
    /\ gl' = [gl EXCEPT !.pc = "returned"]
    /\ UNCHANGED <<pipevars, dc, fh, mp, rl>>

NextGetLogs ==
    \/ \E resp \in Responses : GetLogsStep(resp)
    \/ GetLogsReturn

SpecGetLogs == InitGetLogs /\ [][NextGetLogs]_vars

\* The call goes on while it can: every request is answered and the
\* interpreter runs the loop.
SpecGetLogsFair == SpecGetLogs /\ WF_vars(NextGetLogs)

(***************************************************************************)
(* decode_logs on its own: the logs and the ABI are drawn in the initial   *)
(* state; the actions are the set-up before the loop, one iteration of the *)
(* loop, the return, and a second call with the same arguments.            *)
(***************************************************************************)
TopicValues ==
    {StrTopic(TRUE, "ddf2"), StrTopic(TRUE, "DDF2"), StrTopic(FALSE, "ddf2"),
     BytesTopic("ddf2"), StrTopic(TRUE, "8c5b"), StrTopic(TRUE, "ffff"),
     StrTopic(TRUE, "zz")}

RawLogs ==
    [topics : {<<>>} \cup {<<t>> : t \in TopicValues}, data : {"ok", "garbage"}]

Abis ==
    {[valid |-> FALSE, events |-> {}]} \cup
    {[valid |-> TRUE, events |-> E] : E \in {{}, {"Transfer"}, AbiEvents}}

DecodeCalls ==
    {[pc |-> "start", logs |-> l, logs0 |-> l, abi |-> a, event_map |-> <<>>,
      i |-> 1, out |-> <<>>, prev |-> <<>>, calls |-> 1] :
        l \in UNION {[1..n -> RawLogs] : n \in 0..MaxLogs}, a \in Abis}

InitDecoder ==
    /\ head = [ch \in Chains |-> CHOOSE h \in HeadValues(ch) :
                                    \A g \in HeadValues(ch) : h <= g]
    /\ registry = [k \in Contracts |->
                      [last_updated_block |-> 0,
                       contract_creation_block |-> CreationBlockOf(k),
                       contract_abi |-> "s3://abis/contract.json"]]
    /\ raw_logs = EmptyTable
    /\ decoded_logs = EmptyTable
    /\ rpc = [r \in Runs |-> "idle"]
    /\ items = [r \in Runs |-> <<>>]
    /\ sres = [r \in Runs |-> <<>>]
    /\ dout = NoOutput
    /\ faults = 0
    /\ tries = [r \in Runs |-> 0]
    /\ gl = GlIdle
    /\ dc \in DecodeCalls
    /\ fh = FhIdle
    /\ mp = MpIdle
    /\ rl = RlIdle

\* The contract object and event_map are built; an invalid ABI raises here.
DecodeLogsStart ==
    /\ dc.pc = "start"
    /\ dc' = IF ContractRaises(dc.abi)
             THEN [dc EXCEPT !.pc = "raised"]
             ELSE [dc EXCEPT !.pc = "loop", !.event_map = EventMap(dc.abi)]
    /\ UNCHANGED <<pipevars, gl, fh, mp, rl>>

\* One iteration of "for log in logs".
DecodeLogsStep ==
    /\ dc.pc = "loop"
    /\ dc.i <= Len(dc.logs)
    /\ dc' = [dc EXCEPT
                !.out = Append(@, RecordOf(dc.logs[dc.i], dc.event_map)),
                !.logs[dc.i] = LogAfter(@, dc.event_map),
                !.i = @ + 1]
    /\ UNCHANGED <<pipevars, gl, fh, mp, rl>>

\* return decoded_logs
DecodeLogsReturn ==
    /\ dc.pc = "loop"
    /\ dc.i > Len(dc.logs)
    /\ dc' = [dc EXCEPT !.pc = "returned"]
    /\ UNCHANGED <<pipevars, gl, fh, mp, rl>>

\* The caller decodes the same logs with the same ABI once more.
DecodeLogsAgain ==
    /\ dc.pc = "returned"
    /\ dc.calls = 1
    /\ dc' = [dc EXCEPT !.pc = "start", !.prev = dc.out, !.out = <<>>,
                        !.i = 1, !.calls = 2]
    /\ UNCHANGED <<pipevars, gl, fh, mp, rl>>

NextDecoder ==
    \/ DecodeLogsStart
    \/ DecodeLogsStep
    \/ DecodeLogsReturn
    \/ DecodeLogsAgain

SpecDecoder == InitDecoder /\ [][NextDecoder]_vars

(***************************************************************************)
(* The fetch handler on its own: the registry content is drawn in the      *)
(* initial state; the actions are the start (API key, registry scan), one  *)
(* iteration of the loop over the chain ids, and the return.               *)
(***************************************************************************)
\* The contracts a registry may hold; chain 56 has no endpoint.
RegistryPool ==
    {<<1, "0xa">>, <<1, "0xc">>, <<137, "0xb">>, <<56, "0xd">>, <<0, "0xe">>}

\* The record the scan returns for a key.
ScannedRecord(key) ==
    [chainid |-> key[1], contract_address |-> key[2],
     contract_abi |-> "s3://abis/contract.json",
     last_updated_block |-> 0, contract_creation_block |-> 0]

\* The heads the API may report, the one of the spec's example included.
ReportedHeads == {REORG_BUFFER - 1, REORG_BUFFER, 20000100}

\* The outcome of one latest-block request: the head, or a failure (transport
\* failure, no "result", a result that is not a hex number).
HeadResponses ==
    {[ok |-> FALSE, block |-> 0]} \cup {[ok |-> TRUE, block |-> h] : h \in ReportedHeads}

FetchHeadCalls ==
    {[pc |-> "start", registry |-> reg, contracts |-> {}, chain_ids |-> {},
      latest_blocks |-> <<>>, heads |-> <<>>, errors |-> {}, requests |-> <<>>,
      sent |-> <<>>, out |-> {}] : reg \in SUBSET RegistryPool}

InitFetchHead ==
    /\ head = [ch \in Chains |-> CHOOSE h \in HeadValues(ch) :
                                    \A g \in HeadValues(ch) : h <= g]
    /\ registry = [k \in Contracts |->
                      [last_updated_block |-> 0,
                       contract_creation_block |-> CreationBlockOf(k),
                       contract_abi |-> "s3://abis/contract.json"]]
    /\ raw_logs = EmptyTable
    /\ decoded_logs = EmptyTable
    /\ rpc = [r \in Runs |-> "idle"]
    /\ items = [r \in Runs |-> <<>>]
    /\ sres = [r \in Runs |-> <<>>]
    /\ dout = NoOutput
    /\ faults = 0
    /\ tries = [r \in Runs |-> 0]
    /\ gl = GlIdle
    /\ dc = DcIdle
    /\ fh \in FetchHeadCalls
    /\ mp = MpIdle
    /\ rl = RlIdle

\* get_api_key and get_contracts_from_dynamodb, which raise when SSM or
\* DynamoDB fails; then the early return for an empty registry, or the set of
\* the chain ids.
FetchHeadStart(ok) ==
    /\ fh.pc = "start"
    /\ fh' = IF ~ok
             THEN [fh EXCEPT !.pc = "raised"]
             ELSE IF fh.registry = {}
             THEN [fh EXCEPT !.pc = "returned"]
             ELSE [fh EXCEPT !.pc = "loop",
                             !.contracts = {ScannedRecord(k) : k \in fh.registry},
                             !.chain_ids = {k[1] : k \in fh.registry} \ {0}]
    /\ UNCHANGED <<pipevars, gl, dc, mp, rl>>

\* One iteration of "for chain_id in chain_ids": get_latest_block is called;
\* it raises without sending for a chain that has no endpoint, and after
\* sending when the response is a failure.
FetchLatestBlock(chain_id, resp) ==
    /\ fh.pc = "loop"
    /\ chain_id \in fh.chain_ids
    /\ chain_id \notin {fh.requests[i] : i \in 1..Len(fh.requests)}
    /\ fh' = IF GetBaseUrlRaises(chain_id)
             THEN [fh EXCEPT !.requests = Append(@, chain_id),
                             !.errors = @ \cup {chain_id}]
             ELSE IF ~resp.ok
             THEN [fh EXCEPT !.requests = Append(@, chain_id),
                             !.sent = Append(@, chain_id),
                             !.errors = @ \cup {chain_id}]
             ELSE [fh EXCEPT !.requests = Append(@, chain_id),
                             !.sent = Append(@, chain_id),
                             !.heads = With(@, chain_id, resp.block),
                             !.latest_blocks =
                                 With(@, chain_id, SafeBlock(resp.block))]
    /\ UNCHANGED <<pipevars, gl, dc, mp, rl>>

\* The loop is over: the contracts of the chains in latest_blocks are
\* returned, each with its chain's target_block.
FetchHeadReturn ==
    /\ fh.pc = "loop"
    /\ fh.chain_ids \subseteq {fh.requests[i] : i \in 1..Len(fh.requests)}
    /\ fh' = [fh EXCEPT
                !.pc = "returned",
                !.out = {With(c, "target_block", fh.latest_blocks[c.chainid]) :
                            c \in {x \in fh.contracts :
                                      x.chainid \in DOMAIN fh.latest_blocks}}]
    /\ UNCHANGED <<pipevars, gl, dc, mp, rl>>

NextFetchHead ==
    \/ \E ok \in BOOLEAN : FetchHeadStart(ok)
    \/ \E ch \in {k[1] : k \in RegistryPool} :
          \E resp \in HeadResponses : FetchLatestBlock(ch, resp)
    \/ FetchHeadReturn

SpecFetchHead == InitFetchHead /\ [][NextFetchHead]_vars

(***************************************************************************)
(* Properties                                                              *)
(***************************************************************************)
\* The sync invocations that a state allows: the inputs of the Map
\* iterations that have not returned, under every environment.
SyncCalls == {<<r, k>> : r \in Runs, k \in Contracts} \cap
             {c \in Runs \X Contracts : c[2] \in DOMAIN items[c[1]]}

KeyOf(event) == <<event.chainid, event.contract_address>>

\* C1: the registry's last_updated_block of a contract never decreases,
\* whatever runs, overlapping runs and retries invoke SyncRange with the
\* input FetchHead handed them.
C1_WatermarkNeverDecreases ==
    [][\A k \in Contracts :
          registry'[k].last_updated_block >= registry[k].last_updated_block]_vars

\* The step in which the decode iteration of k in run r returns.
DecodeStepOf(r, k) ==
    /\ rpc[r] = "running"
    /\ DOMAIN items[r] = {}
    /\ k \in DOMAIN sres[r]
    /\ k \notin DOMAIN sres'[r]

\* C2: a successful DecodeRange for a contract leaves the decoded_logs rows of
\* every other contract and chain as they were.
C2_DecodeLeavesOtherContracts ==
    [][\A r \in Runs : \A k \in Contracts :
          (DecodeStepOf(r, k) /\ dout'.status = "success")
              => \A j \in Contracts \ {k} : decoded_logs'[j] = decoded_logs[j]]_vars

\* C3: the ranges appended to raw_logs for a contract are pairwise disjoint:
\* the log of no block is in the raw table more than once.
C3_NoBlockAppendedTwice ==
    \A k \in Contracts : \A b \in EventBlocks : raw_logs[k][b] <= 1

\* The input of the sync invocation c and its outcome under env.
EventOf(c) == items[c[1]][c[2]]

OutcomeOf(c, env) == SyncRange(EventOf(c), env, raw_logs, registry)

PlannedFrom(event) ==
    PlanFromBlock(event.last_updated_block, event.contract_creation_block)

FetchOf(event, env) ==
    GetLogs(event.chainid, ChainLogs(KeyOf(event)), PlannedFrom(event),
            event.target_block, DefaultBatchSize, env.resps)

\* The log fetch fails, the raw append fails, or the invocation is cut off
\* before the append has finished.
AppendNotDone(event, env) ==
    \/ FetchOf(event, env).raised
    \/ env.fault = "cut_fetch"
    \/ FetchOf(event, env).all_logs # <<>> /\ env.fault \in {"append", "cut_append"}

\* C4: an invocation whose log fetch fails, whose raw append fails or that is
\* cut off before the append has finished leaves the registry as it was: the
\* watermark is written only after the append.
C4_WatermarkAfterAppend ==
    \A c \in SyncCalls : \A env \in SyncEnvs :
        AppendNotDone(EventOf(c), env) => OutcomeOf(c, env).registry = registry

\* A sync iteration returned a raw-append failure and the contract's
\* watermark is still 0.
C4_Witness ==
    \E r \in Runs : \E k \in DOMAIN sres[r] :
        /\ sres[r][k].status = "error"
        /\ sres[r][k].error = "Failed to write to DeltaLake"
        /\ registry[k].last_updated_block = 0

\* C5: for an input that names a chain and a contract, if the planned
\* from_block is greater than target_block, SyncRange returns no_new_data,
\* issues no request and leaves the registry and the raw table unchanged.
C5_EmptyPlanIsNoNewData ==
    \A c \in SyncCalls : \A env \in SyncEnvs :
        LET e == EventOf(c)
            out == OutcomeOf(c, env)
        IN  (e.chainid # 0 /\ e.contract_address # ""
                /\ PlannedFrom(e) > e.target_block)
            => /\ out.result.status = "no_new_data"
               /\ out.requests = <<>>
               /\ out.raw = raw_logs
               /\ out.registry = registry

\* The start of the range as the claim gives it, case by case.
ExpectedFrom(e) ==
    IF e.last_updated_block = 0 /\ e.contract_creation_block > 0
    THEN e.contract_creation_block
    ELSE IF e.last_updated_block = 0 /\ e.contract_creation_block = 0
    THEN 0
    ELSE e.last_updated_block + 1

\* C6: the planned range starts at contract_creation_block (full backfill of
\* a contract with a creation block), at 0 (full backfill without one) or at
\* last_updated_block + 1 (incremental), and ends at target_block: the
\* requests start there and a success reports exactly that range.
C6_PlannedRange ==
    \A c \in SyncCalls : \A env \in SyncEnvs :
        LET e == EventOf(c)
            out == OutcomeOf(c, env)
            n == Len(out.requests)
        IN  /\ n > 0 => out.requests[1][1] = ExpectedFrom(e)
            /\ out.result.status = "success"
               => /\ out.result.synced_from_block = ExpectedFrom(e)
                  /\ out.result.synced_to_block = e.target_block
                  /\ n > 0
                  /\ out.requests[n][2] = e.target_block

\* A full backfill from a creation block has returned, and so has an
\* incremental sync of the same contract.
C6_Witness ==
    \E r1 \in Runs : \E r2 \in Runs : \E k \in DOMAIN sres[r1] \cap DOMAIN sres[r2] :
        /\ sres[r1][k].status = "success"
        /\ registry[k].contract_creation_block > 0
        /\ sres[r1][k].synced_from_block = registry[k].contract_creation_block
        /\ sres[r2][k].status = "success"
        /\ sres[r2][k].synced_from_block = sres[r1][k].synced_to_block + 1

\* C7: when SyncRange returns success and its registry write succeeds, the
\* contract's last_updated_block is exactly target_block, whatever was fetched.
C7_WatermarkIsTarget ==
    \A c \in SyncCalls : \A env \in SyncEnvs :
        LET e == EventOf(c)
            out == OutcomeOf(c, env)
        IN  (out.result.status = "success" /\ env.fault # "registry")
            => out.registry[KeyOf(e)].last_updated_block = e.target_block

\* A sync that fetched no log returned success and the watermark is at its
\* target; another, of the same contract, fetched logs whose last block is
\* below its target.
C7_Witness ==
    \E r1 \in Runs : \E r2 \in Runs : \E k \in DOMAIN sres[r1] \cap DOMAIN sres[r2] :
        /\ sres[r1][k].status = "success"
        /\ sres[r1][k].logs_count = 0
        /\ sres[r2][k].status = "success"
        /\ sres[r2][k].logs_count > 0
        /\ registry[k].last_updated_block = sres[r2][k].synced_to_block
        /\ \A b \in ChainLogs(k) : b < sres[r2][k].synced_to_block

\* C8: when the registry write fails after the fetch and the append, SyncRange
\* still returns success with the range and the count, the fetched rows are
\* in raw_logs and the registry is as before the call.
C8_RegistryFailureIsSoft ==
    \A c \in SyncCalls : \A env \in SyncEnvs :
        LET e == EventOf(c)
            f == FetchOf(e, env)
            out == OutcomeOf(c, env)
        IN  (/\ env.fault = "registry"
             /\ ~MissingRequired(e)
             /\ PlannedFrom(e) <= e.target_block
             /\ ~f.raised)
            => /\ out.result.status = "success"
               /\ out.result.synced_from_block = PlannedFrom(e)
               /\ out.result.synced_to_block = e.target_block
               /\ out.result.logs_count = Len(f.all_logs)
               /\ out.raw = WriteDeltaTable(raw_logs, RowsOf(KeyOf(e), f.all_logs),
                                            "append")
               /\ out.registry = registry

\* A sync returned success with logs, its rows are in raw_logs and the
\* watermark was not advanced.
C8_Witness ==
    \E r \in Runs : \E k \in DOMAIN sres[r] :
        /\ sres[r][k].status = "success"
        /\ sres[r][k].logs_count > 0
        /\ RowCount(raw_logs, k) = sres[r][k].logs_count
        /\ registry[k].last_updated_block = 0

NominalSyncEnv == [resps |-> [i \in 1..MaxWindows |-> RespList], fault |-> "none"]

\* C9: SyncRange is idempotent: invoked twice with the same input it leaves
\* raw_logs and the registry as one invocation does.
C9_SyncIdempotent ==
    \A c \in SyncCalls :
        LET once == SyncRange(EventOf(c), NominalSyncEnv, raw_logs, registry)
            twice == SyncRange(EventOf(c), NominalSyncEnv, once.raw, once.registry)
        IN  twice.raw = once.raw /\ twice.registry = once.registry

\* C10: for from_block <= to_block and batch_size >= 1 the requests of
\* get_logs are consecutive disjoint windows of at most batch_size blocks
\* (exactly batch_size but for the last), starting at from_block, in
\* ascending order, that end at to_block when the call returns; the logs are
\* concatenated in ascending block order; [100, 25000] with batch_size 10000
\* gives [100,10099], [10100,20099], [20100,25000].
C10_Windows ==
    (gl.pc # "idle" /\ gl.from_block <= gl.to_block /\ gl.batch_size >= 1)
    => LET req == gl.st.requests
           n == Len(req)
           logs == gl.st.all_logs
       IN  /\ n > 0 => req[1][1] = gl.from_block
           /\ \A i \in 1..n :
                 /\ req[i][1] <= req[i][2]
                 /\ req[i][2] <= gl.to_block
                 /\ req[i][2] - req[i][1] + 1 <= gl.batch_size
                 /\ req[i][2] < gl.to_block
                    => req[i][2] - req[i][1] + 1 = gl.batch_size
           /\ \A i \in 1..(n - 1) : req[i + 1][1] = req[i][2] + 1
           /\ gl.pc = "returned" => (n > 0 /\ req[n][2] = gl.to_block)
           /\ \A i \in 1..(Len(logs) - 1) : logs[i] < logs[i + 1]
           /\ (gl.pc = "returned" /\ gl.from_block = 100 /\ gl.to_block = 25000
                  /\ gl.batch_size = 10000)
              => req = <<<<100, 10099>>, <<10100, 20099>>, <<20100, 25000>>>>

\* The scenario call has returned the logs of its three windows.
C10_Witness ==
    /\ gl.pc = "returned"
    /\ gl.from_block = 100
    /\ gl.to_block = 25000
    /\ Len(gl.st.requests) = 3
    /\ gl.st.all_logs = <<100, 15000, 25000>>

\* The response carries logs: status "1" and a non-empty list as result.
CarriesLogs(resp) == resp.status = "1" /\ resp.result = "list"

\* C11: a window answered with a status other than "1", or with a missing,
\* empty or non-list result, adds no log and raises nothing: the loop goes on
\* with the next window, and a window answered with its logs adds exactly them.
C11_BadWindowYieldsNothing ==
    [][(gl.pc = "loop" /\ gl'.pc # "returned" /\ gl' # gl
            /\ gl'.last.transport = "ok" /\ ~GetBaseUrlRaises(gl.chain_id))
       => LET n == Len(gl'.st.requests)
              w == gl'.st.requests[n]
          IN  /\ n = Len(gl.st.requests) + 1
              /\ gl'.pc = "loop"
              /\ ~gl'.st.raised
              /\ gl'.st.current_from = w[2] + 1
              /\ gl'.st.all_logs =
                    IF CarriesLogs(gl'.last)
                    THEN gl.st.all_logs \o
                         SortedSeq({b \in gl.events : w[1] <= b /\ b <= w[2]})
                    ELSE gl.st.all_logs]_vars

\* The call over [100, 25000] has returned after three requests with the
\* logs of its first and last windows only: the middle window, which holds a
\* log, was answered without logs.
C11_Witness ==
    /\ gl.pc = "returned"
    /\ gl.from_block = 100
    /\ gl.to_block = 25000
    /\ Len(gl.st.requests) = 3
    /\ gl.st.all_logs = <<100, 25000>>

\* The number of windows of [from_block, to_block].
NumWindows(from_block, to_block, batch_size) ==
    ((to_block - from_block) \div batch_size) + 1

\* The handler reaches the log fetch and is not cut off in it.
ReachesFetch(event, env) ==
    /\ ~MissingRequired(event)
    /\ PlannedFrom(event) <= event.target_block
    /\ env.fault \notin {"secret", "cut_fetch"}

\* The windows of the planned range whose request fails at transport level.
FailedWindows(event, env) ==
    {i \in 1..NumWindows(PlannedFrom(event), event.target_block, DefaultBatchSize) :
        env.resps[i] = RespFail}

\* C12: when the request of some window fails at transport level, get_logs
\* issues no request after it and raises; SyncRange returns status error,
\* appends nothing (the logs of the earlier windows included) and leaves the
\* registry as it was.
C12_TransportFailureAborts ==
    \A c \in SyncCalls : \A env \in SyncEnvs :
        LET e == EventOf(c)
            out == OutcomeOf(c, env)
            failed == FailedWindows(e, env)
        IN  (ReachesFetch(e, env) /\ ~GetBaseUrlRaises(e.chainid) /\ failed # {})
            => /\ FetchOf(e, env).raised
               /\ Len(out.requests) = CHOOSE i \in failed : \A j \in failed : i <= j
               /\ out.result.status = "error"
               /\ out.result.error = "Failed to fetch logs"
               /\ out.raw = raw_logs
               /\ out.registry = registry

\* The only run started so far planned two windows for 0xa, the first of
\* which holds a log; its sync returned the fetch error, and 0xa has no raw
\* row and its watermark is 0.
C12_Witness ==
    /\ rpc[1] = "running"
    /\ \A r \in Runs \ {1} : rpc[r] = "idle"
    /\ head[1] = REORG_BUFFER + (2 * BlockStep)
    /\ <<1, "0xa">> \in DOMAIN sres[1]
    /\ sres[1][<<1, "0xa">>].status = "error"
    /\ sres[1][<<1, "0xa">>].error = "Failed to fetch logs"
    /\ RowCount(raw_logs, <<1, "0xa">>) = 0
    /\ registry[<<1, "0xa">>].last_updated_block = 0

DecodeStatuses == {"success", "unknown_event", "no_topics", "error"}

\* C13: decode_logs never raises, whatever the logs and the ABI, and returns
\* one record per input log, the i-th built from the i-th log, each with a
\* decode_status in {success, unknown_event, no_topics, error}.
C13_DecodeTotal ==
    /\ dc.pc # "raised"
    /\ dc.pc = "returned"
       => /\ Len(dc.out) = Len(dc.logs0)
          /\ \A i \in 1..Len(dc.out) :
                /\ dc.out[i].log = dc.logs0[i]
                /\ dc.out[i].decode_status \in DecodeStatuses

\* The events of the ABI whose signature hash is the value of the topic,
\* whatever its case and prefix.
EventsOfTopic(abi, topic) ==
    {e \in abi.events : LowerHex(topic.hex) = KeccakHex(e)}

C15_SignatureNormalized ==
    dc.pc \in {"loop", "returned"} =>
        \A i \in 1..Len(dc.out) :
            (/\ dc.logs0[i].topics # <<>>
             /\ EventsOfTopic(dc.abi, dc.logs0[i].topics[1]) # {})
            => dc.out[i].decode_status # "unknown_event"

C17_ErrorFieldOnlyOnError ==
    dc.pc \in {"loop", "returned"} =>
        \A i \in 1..Len(dc.out) :
            LET rec == dc.out[i]
            IN  /\ "decode_error" \in DOMAIN rec <=> rec.decode_status = "error"
                /\ rec.event_name # None => rec.decode_status = "success"
                /\ rec.decoded_args # NoArgs => rec.decode_status = "success"

\* A call has returned an error record and a success record.
C17_Witness ==
    /\ dc.pc = "returned"
    /\ Len(dc.out) = 2
    /\ dc.out[1].decode_status = "error"
    /\ "decode_error" \in DOMAIN dc.out[1]
    /\ dc.out[2].decode_status = "success"
    /\ dc.out[2].event_name = "Approval"

\* The inputs of the decode iterations that have not run yet: the outputs
\* of the sync iterations.
DecodeInputs == UNION {{sres[r][k] : k \in DOMAIN sres[r]} : r \in Runs}

\* C18: for an input whose status is no_new_data or error, DecodeRange returns
\* skipped and leaves decoded_logs as it was, whatever the ABI load, the raw
\* read and the decoded write would do and whatever raw_logs holds: none of
\* them takes place.
C18_SkipTouchesNothing ==
    \A e \in DecodeInputs : \A fault \in DecodeFaults :
        \A raw \in {raw_logs, EmptyTable} :
            LET out == DecodeRange(e, fault, raw, decoded_logs)
            IN  e.status \in {"no_new_data", "error"}
                => /\ out.result.status = "skipped"
                   /\ out.result.reason = IF e.status = "error"
                                          THEN "previous_step_failed"
                                          ELSE "no_new_data"
                   /\ out.decoded = decoded_logs

\* A decode iteration returned skipped while decoded_logs holds rows.
C18_Witness ==
    /\ dout.status = "skipped"
    /\ decoded_logs # EmptyTable

CallsFor(requests, chain_id) ==
    Cardinality({i \in 1..Len(requests) : requests[i] = chain_id})

ReturnedKeys(out) == {<<c.chainid, c.contract_address>> : c \in out}

\* The head fetch of chain_id was made and raised.
HeadFetchFailed(call, chain_id) ==
    /\ CallsFor(call.requests, chain_id) > 0
    /\ chain_id \notin DOMAIN call.latest_blocks

\* C21: a contract of the registry is left out of FetchHead's output exactly
\* when the head fetch of its chain failed, and then errors has an entry for
\* the chain; the contracts of the other chains are returned, and FetchHead
\* does not raise once it asks for heads.
C21_LeftOutIffFetchFailed ==
    /\ fh.pc = "raised" => fh.requests = <<>>
    /\ fh.pc = "returned" =>
          \A k \in fh.registry :
             /\ k \notin ReturnedKeys(fh.out) <=> HeadFetchFailed(fh, k[1])
             /\ k \notin ReturnedKeys(fh.out) => k[1] \in fh.errors

\* C22: for a chain_id outside the supported set, the base URL lookup raises,
\* and get_logs, whatever from_block, to_block and batch_size are, ends with
\* an error and never returns a list, having sent no request.
C22_UnsupportedChainFails ==
    gl.pc # "idle" /\ gl.chain_id \notin CHAIN_URLS =>
        /\ GetBaseUrlRaises(gl.chain_id)
        /\ gl.st.requests = <<>>
        /\ gl.pc # "returned"

(***************************************************************************)
(* The rate limit of one client instance.  Time is counted in tenths of a  *)
(* second; the moment _rate_limit stamps is the moment of the request that *)
(* _make_request then issues.                                              *)
(***************************************************************************)
MaxTime == 12

\* rate_limit_delay, 0.2 s.
RateLimitDelay == 2

Max(a, b) == IF a >= b THEN a ELSE b

\* Mutant: the client never sleeps.
SleepTime_None(elapsed) == 0

\* The argument of time.sleep in _rate_limit, 0 when it does not sleep.
SleepTime(elapsed) ==
    IF elapsed < RateLimitDelay THEN RateLimitDelay - elapsed ELSE 0

\* A new client: _last_request_time is 0.0 and the clock is far from 0.
RlNew ==
    [pc |-> "ready", now |-> RateLimitDelay + 1, last |-> 0, elapsed |-> 0,
     slept |-> 0, sent |-> <<>>]

InitRateLimit ==
    /\ head = [ch \in Chains |-> CHOOSE h \in HeadValues(ch) :
                                    \A g \in HeadValues(ch) : h <= g]
    /\ registry = [k \in Contracts |->
                      [last_updated_block |-> 0,
                       contract_creation_block |-> CreationBlockOf(k),
                       contract_abi |-> "s3://abis/contract.json"]]
    /\ raw_logs = EmptyTable
    /\ decoded_logs = EmptyTable
    /\ rpc = [r \in Runs |-> "idle"]
    /\ items = [r \in Runs |-> <<>>]
    /\ sres = [r \in Runs |-> <<>>]
    /\ dout = NoOutput
    /\ faults = 0
    /\ tries = [r \in Runs |-> 0]
    /\ gl = GlIdle
    /\ dc = DcIdle
    /\ fh = FhIdle
    /\ mp = MpIdle
    /\ rl = RlNew

\* Time passes between two calls of the client.
Tick ==
    /\ rl.pc = "ready"
    /\ rl.now < MaxTime
    /\ rl' = [rl EXCEPT !.now = @ + 1]
    /\ UNCHANGED <<pipevars, gl, dc, fh, mp>>

\* _rate_limit, called first by _make_request for a latest-block or a
\* log-window request alike: it sleeps, for the asked time or longer by
\* over, and stamps the clock.
RateLimit(over) ==
    /\ rl.pc = "ready"
    /\ LET elapsed == rl.now - rl.last
           slept == IF SleepTime(elapsed) > 0 THEN SleepTime(elapsed) + over
                    ELSE 0
       IN  /\ rl.now + slept <= MaxTime
           /\ rl' = [rl EXCEPT !.pc = "limited", !.elapsed = elapsed,
                               !.slept = slept, !.now = @ + slept,
                               !.last = rl.now + slept]
    /\ UNCHANGED <<pipevars, gl, dc, fh, mp>>

\* The rest of _make_request: the base URL lookup raises for a chain without
\* endpoint, otherwise the request goes out.
MakeRequest(chain_id) ==
    /\ rl.pc = "limited"
    /\ rl' = IF GetBaseUrlRaises(chain_id)
             THEN [rl EXCEPT !.pc = "ready"]
             ELSE [rl EXCEPT !.pc = "ready", !.sent = Append(@, rl.now)]
    /\ UNCHANGED <<pipevars, gl, dc, fh, mp>>

NextRateLimit ==
    \/ Tick
    \/ \E over \in 0..1 : RateLimit(over)
    \/ \E chain_id \in {1, 56} : MakeRequest(chain_id)

SpecRateLimit == InitRateLimit /\ [][NextRateLimit]_vars

\* C23: two consecutive outbound requests of a client are at least the
\* minimum interval apart, and before every request the client has slept at
\* least max(0, min_interval - elapsed), elapsed being the time since the
\* previous request.
C23_MinimumInterval ==
    rl.pc # "idle" =>
        /\ \A i \in 1..(Len(rl.sent) - 1) :
              rl.sent[i + 1] - rl.sent[i] >= RateLimitDelay
        /\ rl.pc = "limited" =>
              /\ rl.slept >= Max(0, RateLimitDelay - rl.elapsed)
              /\ rl.now - (rl.last - rl.slept - rl.elapsed) >= RateLimitDelay

\* The second request went out exactly the minimum interval after the first,
\* the client having slept for the rest of it, and a later one went out after
\* a longer gap.
C23_Witness ==
    /\ rl.pc # "idle"
    /\ Len(rl.sent) >= 2
    /\ rl.sent[2] - rl.sent[1] = RateLimitDelay
    /\ \E i \in 2..Len(rl.sent) : rl.sent[i] - rl.sent[i - 1] > RateLimitDelay

\* C24: the read of a raw table that does not exist gives the empty frame and
\* no error (DecodeRange answers no_data); every failure of the read of a
\* table that exists reaches DecodeRange, which returns status error and
\* leaves decoded_logs as it was.
C24_OtherReadFailuresPropagate ==
    \A e \in DecodeInputs :
        e.status = "success" =>
            /\ ReadFrame(EmptyTable, KeyOf(e), "none") = [b \in EventBlocks |-> 0]
            /\ DecodeRange(e, "none", EmptyTable, decoded_logs).result.status
                  = "no_data"
            /\ \A fault \in ReadFailures :
                  LET out == DecodeRange(e, fault, raw_logs, decoded_logs)
                  IN  raw_logs # EmptyTable =>
                         /\ out.result.status = "error"
                         /\ out.decoded = decoded_logs

\* C25: the write of an empty record set, in append or overwrite mode, leaves
\* the table as it was: a table that does not exist is not created and the
\* rows of a table that exists stay; a SyncRange whose fetch returned no log
\* leaves raw_logs unchanged.
C25_EmptyWriteIsNoOp ==
    /\ \A mode \in {"append", "overwrite"} : \A key \in Contracts :
          \A table \in {EmptyTable, raw_logs, decoded_logs} :
             WriteDeltaTable(table, RowsOf(key, <<>>), mode) = table
    /\ \A c \in SyncCalls : \A env \in SyncEnvs :
          LET e == EventOf(c)
              f == FetchOf(e, env)
          IN  (ReachesFetch(e, env) /\ ~f.raised /\ f.all_logs = <<>>)
              => OutcomeOf(c, env).raw = raw_logs

\* A sync that fetched no log returned success while raw_logs and
\* decoded_logs hold rows, and another sync is about to be invoked.
C25_Witness ==
    /\ raw_logs # EmptyTable
    /\ decoded_logs # EmptyTable
    /\ SyncCalls # {}
    /\ \E r \in Runs : \E k \in DOMAIN sres[r] :
          /\ sres[r][k].status = "success"
          /\ sres[r][k].logs_count = 0

\* C26: raw_logs is append-only: a step never takes a raw row away, and a
\* step that changes raw_logs is an invocation of SyncRange, which adds rows;
\* FetchHead and DecodeRange leave it as it is.
C26_RawAppendOnly ==
    [][/\ \A k \in Contracts : \A b \in EventBlocks :
             raw_logs'[k][b] >= raw_logs[k][b]
       /\ raw_logs' # raw_logs =>
             \E r \in Runs : \E k \in Contracts : \E env \in SyncEnvs :
                Sync(r, k, env)]_vars

\* raw_logs holds two rows of one contract, a decode has rewritten
\* decoded_logs, and the last run has started.
C26_Witness ==
    /\ \E k \in Contracts : RowCount(raw_logs, k) >= 2
    /\ dout.status = "success"
    /\ rpc[MaxRuns] # "idle"

\* The contracts of run r whose SyncRange or DecodeRange is still to come.
Pending(r) == DOMAIN items[r] \cup DOMAIN sres[r]

\* C27: the failure of SyncRange or DecodeRange for one contract does not stop
\* the run: when a run ends, no other contract of the run is left whose
\* SyncRange or DecodeRange was not carried out.
C27_FailureDoesNotBlockOthers ==
    [][\A r \in Runs :
          (rpc[r] = "running" /\ rpc'[r] # "running")
          => Cardinality(Pending(r)) <= 1]_vars

\* The failures of a collaborator of SyncRange, the ends by timeout left out.
CollaboratorFaults == {"none", "secret", "append", "registry"}

\* C28: SyncRange and DecodeRange never raise: whatever collaborator fails,
\* SyncRange returns a result whose status is success, no_new_data or error
\* and DecodeRange one whose status is success, skipped, no_data or error,
\* and a result of status error has an error field.
C28_HandlersNeverRaise ==
    /\ \A c \in SyncCalls : \A env \in SyncEnvs :
          LET res == OutcomeOf(c, env).result
          IN  env.fault \in CollaboratorFaults
              => /\ res # TaskFailed
                 /\ res.status \in {"success", "no_new_data", "error"}
                 /\ res.status = "error" => "error" \in DOMAIN res
    /\ \A e \in DecodeInputs : \A fault \in DecodeFaults :
          LET res == DecodeRange(e, fault, raw_logs, decoded_logs).result
          IN  /\ res.status \in {"success", "skipped", "no_data", "error"}
              /\ res.status = "error" => "error" \in DOMAIN res

\* C29: a run whose FetchHead invocation fails on the first attempt and on the
\* MaxAttempts retries ends in FetchBlockFailed, and not before; a failing
\* attempt leaves the registry, raw_logs and decoded_logs as they are, and the
\* run has no SyncRange and no DecodeRange invocation, then or later.
C29_FetchFailureAbortsRun ==
    [][\A r \in Runs :
          /\ tries'[r] # tries[r] =>
                /\ registry' = registry
                /\ raw_logs' = raw_logs
                /\ decoded_logs' = decoded_logs
                /\ Pending(r) = {}
                /\ items'[r] = <<>> /\ sres'[r] = <<>>
                /\ rpc'[r] = IF tries'[r] = MaxAttempts + 1
                             THEN "FetchBlockFailed" ELSE "idle"
          /\ rpc[r] = "FetchBlockFailed" =>
                /\ rpc'[r] = "FetchBlockFailed"
                /\ items'[r] = <<>> /\ sres'[r] = <<>>
                /\ tries'[r] = MaxAttempts + 1]_vars

\* The second run ended in FetchBlockFailed after the first had filled
\* raw_logs and decoded_logs.
C29_Witness ==
    /\ rpc[2] = "FetchBlockFailed"
    /\ rpc[1] = "done"
    /\ raw_logs # EmptyTable
    /\ decoded_logs # EmptyTable

(***************************************************************************)
(* The two Map states of a run on their own: SyncContractsMap runs one     *)
(* iteration per contract FetchHead returned, DecodeContractsMap one per   *)
(* result of the first; an iteration holds one Lambda invocation at a      *)
(* time.                                                                   *)
(***************************************************************************)
MaxItems == 7

\* max_concurrency of SyncContractsMap and of DecodeContractsMap.
SyncMaxConcurrency == 5

DecodeMaxConcurrency == 5

\* The iterations of the Map state that are running.
InFlight(call) == {i \in DOMAIN call.st : call.st[i] = "running"}

\* Mutant: the Map states have no concurrency limit.
CanStart_NoLimit(stage, inflight) == TRUE

\* A Map state starts an iteration while fewer than max_concurrency run.
CanStart(stage, inflight) ==
    inflight < (IF stage = "sync" THEN SyncMaxConcurrency
                ELSE DecodeMaxConcurrency)

MapCalls == {[pc |-> "sync", st |-> [i \in 1..n |-> "pending"]] : n \in 1..MaxItems}

InitMap ==
    /\ head = [ch \in Chains |-> CHOOSE h \in HeadValues(ch) :
                                    \A g \in HeadValues(ch) : h <= g]
    /\ registry = [k \in Contracts |->
                      [last_updated_block |-> 0,
                       contract_creation_block |-> CreationBlockOf(k),
                       contract_abi |-> "s3://abis/contract.json"]]
    /\ raw_logs = EmptyTable
    /\ decoded_logs = EmptyTable
    /\ rpc = [r \in Runs |-> "idle"]
    /\ items = [r \in Runs |-> <<>>]
    /\ sres = [r \in Runs |-> <<>>]
    /\ dout = NoOutput
    /\ faults = 0
    /\ tries = [r \in Runs |-> 0]
    /\ gl = GlIdle
    /\ dc = DcIdle
    /\ fh = FhIdle
    /\ mp \in MapCalls
    /\ rl = RlIdle

\* The Map state starts the iteration of item i: its Lambda is invoked.
MapIterationStart(i) ==
    /\ mp.pc \in {"sync", "decode"}
    /\ i \in DOMAIN mp.st
    /\ mp.st[i] = "pending"
    /\ CanStart(mp.pc, Cardinality(InFlight(mp)))
    /\ mp' = [mp EXCEPT !.st[i] = "running"]
    /\ UNCHANGED <<pipevars, gl, dc, fh, rl>>

\* The iteration of item i ends: its invocation has returned.
MapIterationEnd(i) ==
    /\ mp.pc \in {"sync", "decode"}
    /\ i \in DOMAIN mp.st
    /\ mp.st[i] = "running"
    /\ mp' = [mp EXCEPT !.st[i] = "done"]
    /\ UNCHANGED <<pipevars, gl, dc, fh, rl>>

\* All the iterations have ended: sync_map.next(decode_map).next(success).
MapNext ==
    /\ mp.pc \in {"sync", "decode"}
    /\ \A i \in DOMAIN mp.st : mp.st[i] = "done"
    /\ mp' = IF mp.pc = "sync"
             THEN [pc |-> "decode", st |-> [i \in DOMAIN mp.st |-> "pending"]]
             ELSE [mp EXCEPT !.pc = "PipelineSuccess"]
    /\ UNCHANGED <<pipevars, gl, dc, fh, rl>>

NextMap ==
    \/ \E i \in 1..MaxItems : MapIterationStart(i)
    \/ \E i \in 1..MaxItems : MapIterationEnd(i)
    \/ MapNext

SpecMap == InitMap /\ [][NextMap]_vars

\* C30: at every moment of a run at most 5 SyncRange invocations and at most
\* 5 DecodeRange invocations are in flight, however many contracts the run
\* has.
C30_AtMostFiveInFlight ==
    mp.pc # "idle" =>
        /\ mp.pc = "sync" => Cardinality(InFlight(mp)) <= 5
        /\ mp.pc = "decode" => Cardinality(InFlight(mp)) <= 5
        /\ mp.pc = "PipelineSuccess" => InFlight(mp) = {}

\* Five decode invocations are in flight while two contracts of the run wait
\* for theirs.
C30_Witness ==
    /\ mp.pc = "decode"
    /\ Cardinality(InFlight(mp)) = 5
    /\ Cardinality({i \in DOMAIN mp.st : mp.st[i] = "pending"}) = 2

\* C31: a transport failure during the log fetch of a SyncRange invocation
\* makes the orchestrator invoke SyncRange again for the contract: the
\* iteration stays in the Map state with one attempt more, and within the
\* invocation no window is asked for twice.
C31_TransportFailureIsRetried ==
    [][\A r \in Runs : \A k \in DOMAIN items[r] : \A env \in SyncEnvs :
          (Sync(r, k, env) /\ ReachesFetch(items[r][k], env)
              /\ FetchOf(items[r][k], env).raised)
          => /\ k \in DOMAIN items'[r]
             /\ Attempts(items'[r][k]) = Attempts(items[r][k]) + 1
             /\ k \notin DOMAIN sres'[r]
             /\ LET reqs == FetchOf(items[r][k], env).requests
                IN  \A i \in 1..Len(reqs) : \A j \in 1..Len(reqs) :
                       reqs[i] = reqs[j] => i = j]_vars

\* decoded_logs after the decode iterations of e1 and then of e2, none of
\* whose collaborators fails.
DecodedAfter(e1, e2) ==
    DecodeRange(e2, "none", raw_logs,
                DecodeRange(e1, "none", raw_logs, decoded_logs).decoded).decoded

\* C32: when the decode iterations of two contracts of a run both return
\* success, decoded_logs then holds the decoded records of both, and its
\* content does not depend on which of the two ran first.
C32_DecodedHoldsAllContracts ==
    \A r \in Runs : \A k1 \in DOMAIN sres[r] : \A k2 \in DOMAIN sres[r] :
        (/\ DOMAIN items[r] = {}
         /\ k1 # k2
         /\ DecodeRange(sres[r][k1], "none", raw_logs, decoded_logs).result.status
               = "success"
         /\ DecodeRange(sres[r][k2], "none", raw_logs, decoded_logs).result.status
               = "success")
        => /\ DecodedAfter(sres[r][k1], sres[r][k2])
                = DecodedAfter(sres[r][k2], sres[r][k1])
           /\ \A k \in {k1, k2} :
                 RowCount(DecodedAfter(sres[r][k1], sres[r][k2]), k)
                    = RowCount(raw_logs, k)

\* C33: DecodeRange is idempotent: with raw_logs unchanged and the same
\* collaborators, a second invocation with the same input leaves decoded_logs
\* as the first left it and returns the same result; decoded_count, and with
\* it the records events_found and decode_stats are computed from, is the same.
C33_DecodeIdempotent ==
    \A e \in DecodeInputs : \A fault \in DecodeFaults :
        LET once == DecodeRange(e, fault, raw_logs, decoded_logs)
            twice == DecodeRange(e, fault, raw_logs, once.decoded)
        IN  /\ twice.decoded = once.decoded
            /\ twice.result = once.result

\* A decode returned success for a contract and wrote decoded_logs, and a
\* decode of the same contract, by the other run, is still to come.
C33_Witness ==
    /\ dout.status = "success"
    /\ decoded_logs # EmptyTable
    /\ \E e \in DecodeInputs :
          /\ e.status = "success"
          /\ KeyOf(e) = <<dout.chainid, dout.contract_address>>
          /\ RowCount(decoded_logs, KeyOf(e)) > 0

\* C34: a successful DecodeRange decodes every raw row stored for its
\* contract, whatever range was synced in the run and duplicates included:
\* decoded_count is the number of raw rows of the contract and decoded_logs
\* gets one record for each of them.
C34_DecodesAllRawRows ==
    \A e \in DecodeInputs : \A fault \in DecodeFaults :
        LET out == DecodeRange(e, fault, raw_logs, decoded_logs)
        IN  out.result.status = "success"
            => /\ out.result.decoded_count = RowCount(raw_logs, KeyOf(e))
               /\ out.decoded[KeyOf(e)] = raw_logs[KeyOf(e)]

\* A decode returned success and decoded_logs holds a record for every raw
\* row of its contract: more records than the range synced in the run holds
\* logs, two of them of a block that is stored twice.
C34_Witness ==
    LET key == <<dout.chainid, dout.contract_address>>
    IN  /\ dout.status = "success"
        /\ dout.decoded_count = RowCount(raw_logs, key)
        /\ decoded_logs[key] = raw_logs[key]
        /\ dout.decoded_count >
              Cardinality({b \in ChainLogs(key) :
                              /\ dout.synced_from_block <= b
                              /\ b <= dout.synced_to_block})
        /\ \E b \in EventBlocks : decoded_logs[key][b] = 2

\* C35: a SyncRange invocation for a contract writes at most the
\* last_updated_block of the registry record of that contract: the other
\* records, and the other attributes of that record, are as before.
C35_WritesOnlyItsWatermark ==
    \A c \in SyncCalls : \A env \in SyncEnvs :
        LET e == EventOf(c)
            out == OutcomeOf(c, env)
        IN  /\ DOMAIN out.registry = DOMAIN registry
            /\ \A k \in DOMAIN registry :
                  /\ k # KeyOf(e) => out.registry[k] = registry[k]
                  /\ out.registry[k].contract_creation_block
                        = registry[k].contract_creation_block
                  /\ out.registry[k].contract_abi = registry[k].contract_abi

\* The watermark of one contract has been advanced while the one of the
\* other is still 0, and the sync of the other is about to be invoked.
C35_Witness ==
    \E c \in SyncCalls : \E k \in Contracts :
        /\ k # c[2]
        /\ registry[k].last_updated_block > 0
        /\ registry[c[2]].last_updated_block = 0
        /\ OutcomeOf(c, NominalSyncEnv).registry # registry

\* C36: the watermark is never ahead of the data: when SyncRange returns
\* success for [from_block, target_block] and has advanced the watermark to
\* target_block, every log the API holds for the contract in that range is in
\* raw_logs.
C36_WatermarkNotAheadOfData ==
    \A c \in SyncCalls : \A env \in SyncEnvs :
        LET e == EventOf(c)
            out == OutcomeOf(c, env)
        IN  (/\ out.result.status = "success"
             /\ env.fault # "registry"
             /\ out.registry[KeyOf(e)].last_updated_block = e.target_block)
            => \A b \in ChainLogs(KeyOf(e)) :
                  (out.result.synced_from_block <= b /\ b <= e.target_block)
                  => out.raw[KeyOf(e)][b] >= 1

\* C37: in a run no DecodeRange invocation starts before the SyncRange
\* invocations of all its contracts have returned, and the input of the
\* DecodeRange invocation of a contract is the result its SyncRange
\* invocation returned in that run, kept as it was returned.
C37_DecodeAfterAllSyncs ==
    [][\A r \in Runs : \A k \in Contracts :
          /\ (\E fault \in DecodeFaults : Decode(r, k, fault))
                => /\ DOMAIN items[r] = {}
                   /\ \E fault \in DecodeFaults :
                         dout' = DecodeRange(sres[r][k], fault, raw_logs,
                                             decoded_logs).result
          /\ (k \in DOMAIN sres'[r] /\ k \notin DOMAIN sres[r])
                => \E env \in SyncEnvs :
                      /\ Sync(r, k, env)
                      /\ sres'[r][k] = SyncRange(items[r][k], env, raw_logs,
                                                 registry).result
          /\ (k \in DOMAIN sres'[r] /\ k \in DOMAIN sres[r])
                => sres'[r][k] = sres[r][k]]_vars

\* In a run of two contracts both syncs have returned, one contract has been
\* decoded and the other waits for its decode.
C37_Witness ==
    \E r \in Runs :
        /\ rpc[r] = "running"
        /\ DOMAIN items[r] = {}
        /\ Cardinality(DOMAIN sres[r]) = 1
        /\ dout.status = "success"
        /\ <<dout.chainid, dout.contract_address>> \notin DOMAIN sres[r]
        /\ \A q \in Runs \ {r} : rpc[q] = "idle"

\* C38: when FetchHead returns an empty contracts list (the registry holds no
\* contract, or no head could be fetched), the run goes from CheckContracts
\* to NoContractsFound and ends there, with no SyncRange and no DecodeRange
\* invocation.
C38_EmptyListEndsInNoContractsFound ==
    [][\A r \in Runs :
          (rpc[r] = "idle" /\ rpc'[r] # "idle" /\ tries' = tries
              /\ DOMAIN items'[r] = {})
          => /\ rpc'[r] = "NoContractsFound"
             /\ sres'[r] = <<>>]_vars

\* C39: get_logs terminates: with batch_size >= 1 and every request answered,
\* each iteration moves the window start strictly forward, the call ends
\* (returning, or raising on a failed request) after at most one request per
\* window of the range, and after none when from_block > to_block.
C39_GetLogsTerminates ==
    /\ [][(gl.pc = "loop" /\ gl'.pc = "loop" /\ gl' # gl)
             => /\ gl'.st.current_from > gl.st.current_from
                /\ Len(gl'.st.requests) = Len(gl.st.requests) + 1]_vars
    /\ [](gl.from_block > gl.to_block => gl.st.requests = <<>>)
    /\ [](gl.from_block <= gl.to_block =>
             Len(gl.st.requests)
                <= NumWindows(gl.from_block, gl.to_block, gl.batch_size))
    /\ <>(gl.pc \in {"returned", "raised"})

\* The call over [0, MaxLen] with batch_size 1 has returned after one request
\* per block.
C39_Witness ==
    /\ gl.pc = "returned"
    /\ gl.from_block = 0
    /\ gl.to_block = MaxLen
    /\ gl.batch_size = 1
    /\ Len(gl.st.requests) = MaxLen + 1

\* The invocation plans a full backfill: its range starts at the creation
\* block, not after a watermark.
FullBackfill(event) == ~MissingRequired(event) /\ event.last_updated_block = 0

\* C40: the registry values being >= 0, every registry write of SyncRange
\* stores a last_updated_block > 0, and a contract whose watermark has been
\* advanced is not planned in full-backfill mode again: the invocations still
\* to come plan from a watermark, at last_updated_block + 1.
C40_NoSecondBackfill ==
    \A c \in SyncCalls :
        LET e == EventOf(c)
            key == KeyOf(e)
        IN  /\ registry[key].last_updated_block >= 0
            /\ \A env \in SyncEnvs :
                  LET out == OutcomeOf(c, env)
                  IN  /\ out.result.status = "success" => e.target_block > 0
                      /\ out.registry # registry
                            => out.registry[key].last_updated_block > 0
            /\ registry[key].last_updated_block > 0
                  => /\ ~FullBackfill(e)
                     /\ ~MissingRequired(e)
                           => PlannedFrom(e) = e.last_updated_block + 1

====
